---- MODULE Spec2Model ----
(***************************************************************************)
(* Model of src/app.py: class Graph (capacity and flow matrices kept as    *)
(* insertion-ordered default-valued mappings), its breadth-first           *)
(* augmenting-path search, the Ford-Fulkerson loop and the flow verifier.  *)
(***************************************************************************)
EXTENDS Integers, Sequences, FiniteSets, TLC

\* ------------------------------------------------- constants and bounds
\* LEVELS[3]["nodes"]: the six-node network; node ids are 0 .. NumNodes-1.
NumNodes == 6
\* LEVELS[1]["nodes"]: the four-node diamond, and the chain of LEVELS[0].
SmallV == 4
\* Largest accumulated capacity of a pair in the four-node runs.
MaxCap == 2
\* Largest accumulated capacity of a pair in the six-node runs.
MaxCapLevel4 == 1
\* Entries of a user flow, and calls of the verifier on one instance.
MaxEntries == 3
MaxCalls == 2

NodeIds == 0 .. (NumNodes - 1)
Pairs == NodeIds \X NodeIds
NoParent == -1

\* Pairs offered to add_edge in the four-node runs: the diamond of LEVELS[1]
\* and the two anti-parallel arcs between its middle nodes.
DiamondPool == { <<0, 1>>, <<0, 2>>, <<1, 3>>, <<2, 3>>, <<1, 2>>, <<2, 1>> }
DiamondTerminals == { <<0, 3>>, <<0, 0>> }

\* Pairs offered to add_edge in the six-node runs: the arcs of LEVELS[3].
Level4Pool == { <<0, 1>>, <<0, 2>>, <<1, 3>>, <<1, 4>>, <<2, 4>>,
                <<3, 5>>, <<4, 3>>, <<4, 5>>, <<5, 2>> }
Level4Terminals == { <<0, 5>> }

\* The verifier runs use the chain of LEVELS[0]: 0 -> 1 -> 2 -> 3.
ChainPool == { <<0, 1>>, <<1, 2>>, <<2, 3>> }
FlowPool == { <<0, 1>>, <<1, 2>>, <<2, 3>>, <<0, 2>> }
FlowVals == { -1, 1, 2 }
ChainTerminals == { <<0, 3>>, <<1, 3>> }

\* ------------------------------------------------------------ class Graph
\* Graph.__init__: V, an empty capacity mapping and an empty flow mapping.
\* keys[u] is the insertion order of the keys of self.graph[u], the order in
\* which "for v in self.graph[u]" walks them. The order of the rows of
\* self.graph is not kept: only the copy loops of verify_maximum_flow walk
\* it, and they give every row of the copy the key order of the original
\* row whatever the order of the rows. A pair without an entry reads 0.
NewGraph(vertices) ==
    [ V    |-> vertices,
      keys |-> [u \in NodeIds |-> << >>],
      cap  |-> [p \in Pairs |-> 0],
      flow |-> [p \in Pairs |-> 0] ]

SeqToSet(s) == { s[i] : i \in 1 .. Len(s) }

AppendNew(s, x) == IF x \in SeqToSet(s) THEN s ELSE Append(s, x)

\* Graph.add_edge: self.graph[u][v] += capacity
add_edge(g, u, v, capacity) ==
    [ g EXCEPT !.keys[u] = AppendNew(g.keys[u], v),
               !.cap[<<u, v>>] = g.cap[<<u, v>>] + capacity ]

\* Graph.set_flow: self.flow[u][v] = flow_value
set_flow(g, u, v, flow_value) ==
    [ g EXCEPT !.flow[<<u, v>>] = flow_value ]

\* residual_capacity = self.graph[u][v] - self.flow[u][v]
residual_capacity(g, u, v) == g.cap[<<u, v>>] - g.flow[<<u, v>>]

\* ------------------------------------------------------- bfs_path_exists
\* The search state: visited, queue, parent, found (the return value) and
\* log, one record per dequeued node with the nodes visited before its row
\* was scanned, the nodes taken from it, and whether the scan of the row
\* ran to its end (it does not when the sink is reached).
BfsStart(source) ==
    [ visited |-> {source},
      queue   |-> <<source>>,
      parent  |-> [n \in NodeIds |-> NoParent],
      found   |-> FALSE,
      log     |-> << >> ]

\* for v in self.graph[u]: the keys of the row, in insertion order
RowKeys(g, u) ==
    g.keys[u]

\* A variant of the test that also accepts a residual capacity of zero.
TraversableNonStrict(g, u, v, visited) ==
    v \notin visited /\ residual_capacity(g, u, v) >= 0

\* if v not in visited and residual_capacity > 0
Traversable(g, u, v, visited) ==
    v \notin visited /\ residual_capacity(g, u, v) > 0

RECURSIVE ScanRow(_, _, _, _, _, _)
ScanRow(g, u, i, st, sink, ev) ==
    LET row == RowKeys(g, u) IN
    IF i > Len(row)
    THEN [ st EXCEPT !.log = Append(st.log, [ev EXCEPT !.complete = TRUE]) ]
    ELSE LET v == row[i] IN
         IF Traversable(g, u, v, st.visited)
         THEN LET st2 == [ st EXCEPT !.visited = st.visited \cup {v},
                                     !.queue = Append(st.queue, v),
                                     !.parent[v] = u ]
                  ev2 == [ ev EXCEPT !.taken = ev.taken \cup {v} ]
              IN IF v = sink
                 THEN [ st2 EXCEPT !.found = TRUE,
                                   !.log = Append(st.log, ev2) ]
                 ELSE ScanRow(g, u, i + 1, st2, sink, ev2)
         ELSE ScanRow(g, u, i + 1, st, sink, ev)

RECURSIVE BfsLoop(_, _, _)
BfsLoop(g, st, sink) ==
    IF st.found \/ st.queue = << >>
    THEN st
    ELSE LET u == Head(st.queue)
             ev == [ u |-> u, before |-> st.visited, taken |-> {},
                     complete |-> FALSE ]
         IN BfsLoop(g, ScanRow(g, u, 1, [st EXCEPT !.queue = Tail(st.queue)],
                               sink, ev), sink)

bfs_path_exists(g, source, sink) == BfsLoop(g, BfsStart(source), sink)

\* ------------------------------------------------ ford_fulkerson_max_flow
SetMin(S) == CHOOSE x \in S : \A y \in S : x <= y
SetMax(S) == CHOOSE x \in S : \A y \in S : x >= y

\* The residual capacities met while walking s = sink, parent[s], ... back
\* to source; path_flow is their minimum (the code starts from +infinity).
RECURSIVE PathResiduals(_, _, _, _)
PathResiduals(g, parent, s, source) ==
    IF s = source THEN {}
    ELSE { residual_capacity(g, parent[s], s) }
           \cup PathResiduals(g, parent, parent[s], source)

\* A variant that takes the largest residual capacity of the path.
PathFlowMax(g, parent, source, sink) ==
    SetMax(PathResiduals(g, parent, sink, source))

PathFlow(g, parent, source, sink) ==
    SetMin(PathResiduals(g, parent, sink, source))

\* self.flow[u][v] += path_flow; self.flow[v][u] -= path_flow
PushPair(fl, u, v, path_flow) ==
    [ fl EXCEPT ![<<u, v>>] = fl[<<u, v>>] + path_flow,
                ![<<v, u>>] = fl[<<v, u>>] - path_flow ]

RECURSIVE PushPath(_, _, _, _, _)
PushPath(fl, parent, v, source, path_flow) ==
    IF v = source THEN fl
    ELSE PushPath(PushPair(fl, parent[v], v, path_flow),
                  parent, parent[v], source, path_flow)

\* The loop of ford_fulkerson_max_flow, run to its end on graph g.
RECURSIVE FordFulkersonLoop(_, _, _, _)
FordFulkersonLoop(g, source, sink, total) ==
    LET b == bfs_path_exists(g, source, sink)
    IN IF ~ b.found
       THEN [ value |-> total, graph |-> g ]
       ELSE LET pf == PathFlow(g, b.parent, source, sink)
            IN FordFulkersonLoop(
                 [ g EXCEPT !.flow = PushPath(g.flow, b.parent, sink,
                                              source, pf) ],
                 source, sink, total + pf)

ford_fulkerson_max_flow(g, source, sink) ==
    FordFulkersonLoop(g, source, sink, 0)

\* --------------------------------------------------- verify_maximum_flow
\* A user flow is the mapping built by verify_flow: val maps the supplied
\* pairs to their values, rows is the set of first keys that have a row
\* (reading user_flow[node] creates an empty row).
Get(uf, u, v) ==
    IF <<u, v>> \in DOMAIN uf.val THEN uf.val[<<u, v>>] ELSE 0

\* user_flow_dict[u][v] = flow_value
SetEntry(uf, u, v, flow_value) ==
    [ rows |-> uf.rows \cup {u},
      val  |-> [ p \in DOMAIN uf.val \cup {<<u, v>>} |->
                   IF p = <<u, v>> THEN flow_value ELSE uf.val[p] ] ]

\* for v in self.graph[u]: test_graph.add_edge(u, v, self.graph[u][v])
RECURSIVE CopyRow(_, _, _, _)
CopyRow(tg, g, u, i) ==
    IF i > Len(g.keys[u]) THEN tg
    ELSE CopyRow(add_edge(tg, u, g.keys[u][i], g.cap[<<u, g.keys[u][i]>>]),
                 g, u, i + 1)

\* for u in self.graph: ...
RECURSIVE CopyRows(_, _, _)
CopyRows(tg, g, u) ==
    IF u >= NumNodes THEN tg
    ELSE CopyRows(CopyRow(tg, g, u, 1), g, u + 1)

\* Graph(self.V) filled with the capacities of self
CopyGraph(g) == CopyRows(NewGraph(g.V), g, 0)

\* for u in user_flow: for v in user_flow[u]: test_graph.set_flow(u, v, ...)
RECURSIVE SetUserFlows(_, _, _)
SetUserFlows(tg, uf, todo) ==
    IF todo = {} THEN tg
    ELSE LET p == CHOOSE q \in todo : TRUE IN
         SetUserFlows(set_flow(tg, p[1], p[2], uf.val[p]), uf, todo \ {p})

\* test_graph: the copy that carries the user's flow
TestGraph(self, uf) ==
    SetUserFlows(CopyGraph(self), uf, DOMAIN uf.val)

\* A variant that hands the engine the copy that carries the user's flow.
EngineGraphWithUserFlow(self, uf) ==
    TestGraph(self, uf)

\* test_graph_flow_only: the copy ford_fulkerson_max_flow runs on
TestGraphFlowOnly(self, uf) ==
    CopyGraph(self)

\* user_flow_value += user_flow[u][v], over the entries in S
RECURSIVE AddUp(_, _)
AddUp(uf, S) ==
    IF S = {} THEN 0
    ELSE LET p == CHOOSE q \in S : TRUE
         IN uf.val[p] + AddUp(uf, S \ {p})

\* A variant that counts every positive entry, whatever its first endpoint.
UserFlowValueAllPositive(uf, source) ==
    AddUp(uf, { p \in DOMAIN uf.val : uf.val[p] > 0 })

\* user_flow_value: the positive entries whose first endpoint is source
UserFlowValue(uf, source) ==
    AddUp(uf, { p \in DOMAIN uf.val : uf.val[p] > 0 /\ p[1] = source })

\* inflow = sum(user_flow[u].get(node, 0) for u in user_flow)
RECURSIVE Inflow(_, _, _)
Inflow(uf, node, us) ==
    IF us = {} THEN 0
    ELSE LET u == CHOOSE x \in us : TRUE
         IN Get(uf, u, node) + Inflow(uf, node, us \ {u})

\* outflow = sum(user_flow[node].get(v, 0) for v in range(self.V))
RECURSIVE Outflow(_, _, _, _)
Outflow(uf, node, v, V) ==
    IF v >= V THEN 0
    ELSE Get(uf, node, v) + Outflow(uf, node, v + 1, V)

\* A variant of the early return that reports the user's flow value.
ViolationResultWithValue(user_flow_value, actual_max_flow) ==
    << FALSE, user_flow_value, actual_max_flow >>

\* return False, 0, actual_max_flow
ViolationResult(user_flow_value, actual_max_flow) ==
    << FALSE, 0, actual_max_flow >>

\* for node in range(self.V): the conservation check, from node on. The
\* outcome is the returned triple and the user flow with the rows created
\* on the way.
RECURSIVE ConservationLoop(_, _, _, _, _, _, _)
ConservationLoop(node, V, source, sink, uf, user_flow_value, actual) ==
    IF node >= V
    THEN [ result |-> << user_flow_value = actual, user_flow_value, actual >>,
           user_flow |-> uf ]
    ELSE IF node # source /\ node # sink
    THEN LET inflow == Inflow(uf, node, uf.rows)
             outflow == Outflow(uf, node, 0, V)
             uf2 == [ uf EXCEPT !.rows = uf.rows \cup {node} ]
         IN IF inflow # outflow
            THEN [ result |-> ViolationResult(user_flow_value, actual),
                   user_flow |-> uf2 ]
            ELSE ConservationLoop(node + 1, V, source, sink, uf2,
                                  user_flow_value, actual)
    ELSE ConservationLoop(node + 1, V, source, sink, uf,
                          user_flow_value, actual)

\* A variant that runs the engine on self instead of on a copy.
verify_maximum_flow_on_self(self, source, sink, uf) ==
    LET run == ford_fulkerson_max_flow(self, source, sink)
        out == ConservationLoop(0, self.V, source, sink, uf,
                                UserFlowValue(uf, source), run.value)
    IN [ result |-> out.result, self |-> run.graph,
         user_flow |-> out.user_flow ]

\* Graph.verify_maximum_flow: the returned triple, and self and the user
\* flow as the call leaves them.
verify_maximum_flow(self, source, sink, uf) ==
    LET test_graph == TestGraph(self, uf)
        test_graph_flow_only == TestGraphFlowOnly(self, uf)
        run == ford_fulkerson_max_flow(test_graph_flow_only, source, sink)
        out == ConservationLoop(0, self.V, source, sink, uf,
                                UserFlowValue(uf, source), run.value)
    IN [ result |-> out.result, self |-> self, user_flow |-> out.user_flow ]

\* ------------------------------------------------------------------ state
VARIABLES
    graph,           \* the Graph instance (self)
    pc,              \* "build", "loop", "body", "done", "flows", "verify"
    source, sink,    \* the arguments of the call in progress
    parent,          \* the parent dict of ford_fulkerson_max_flow
    max_flow_value,  \* its running total
    path_flow,       \* the bottleneck of the last augmentation
    bfs_log,         \* the row scans of the last bfs_path_exists
    user_flow,       \* the default-valued user-flow mapping
    result,          \* the last triple verify_maximum_flow returned
    calls            \* verify_maximum_flow calls made so far

vars == << graph, pc, source, sink, parent, max_flow_value, path_flow,
           bfs_log, user_flow, result, calls >>

EmptyParent == [n \in NodeIds |-> NoParent]
EmptyUserFlow == [ rows |-> {}, val |-> << >> ]
NoResult == << >>

InitFor(vertices) ==
    /\ graph = NewGraph(vertices)
    /\ pc = "build"
    /\ source = 0
    /\ sink = 0
    /\ parent = EmptyParent
    /\ max_flow_value = 0
    /\ path_flow = 0
    /\ bfs_log = << >>
    /\ user_flow = EmptyUserFlow
    /\ result = NoResult
    /\ calls = 0

engine_vars == << parent, max_flow_value, path_flow, bfs_log >>
verify_vars == << user_flow, result, calls >>

\* graph.add_edge(edge['from'], edge['to'], edge['capacity'])
AddEdge(pool, maxcap) ==
    /\ pc = "build"
    /\ \E p \in pool, c \in 0 .. maxcap :
          /\ graph.cap[p] + c <= maxcap
          /\ graph' = add_edge(graph, p[1], p[2], c)
    /\ UNCHANGED << pc, source, sink, engine_vars, verify_vars >>

\* ford_fulkerson_max_flow(source, sink) is entered: parent = {}, total 0.
CallMaxFlow(terminals) ==
    /\ pc = "build"
    /\ \E t \in terminals : source' = t[1] /\ sink' = t[2]
    /\ pc' = "loop"
    /\ parent' = EmptyParent
    /\ max_flow_value' = 0
    /\ UNCHANGED << graph, path_flow, bfs_log, verify_vars >>

\* while self.bfs_path_exists(source, sink, parent):
LoopTest ==
    /\ pc = "loop"
    /\ LET b == bfs_path_exists(graph, source, sink) IN
          /\ parent' = b.parent
          /\ bfs_log' = b.log
          /\ pc' = IF b.found THEN "body" ELSE "done"
    /\ UNCHANGED << graph, source, sink, max_flow_value, path_flow,
                    verify_vars >>

\* The loop body: the bottleneck, the update along the path, the total,
\* parent = {}.
LoopBody ==
    /\ pc = "body"
    /\ LET pf == PathFlow(graph, parent, source, sink) IN
          /\ path_flow' = pf
          /\ graph' = [ graph EXCEPT !.flow = PushPath(graph.flow, parent, sink,
                                                      source, pf) ]
          /\ max_flow_value' = max_flow_value + pf
    /\ parent' = EmptyParent
    /\ pc' = "loop"
    /\ UNCHANGED << source, sink, bfs_log, verify_vars >>

AddEdgeDiamond == AddEdge(DiamondPool, MaxCap)
CallMaxFlowDiamond == CallMaxFlow(DiamondTerminals)
AddEdgeLevel4 == AddEdge(Level4Pool, MaxCapLevel4)
CallMaxFlowLevel4 == CallMaxFlow(Level4Terminals)

\* verify_flow: user_flow_dict[u][v] = flow_value, one supplied entry
SetUserFlow ==
    /\ pc \in {"build", "flows"}
    /\ \E p \in FlowPool, x \in FlowVals :
          LET uf == SetEntry(user_flow, p[1], p[2], x) IN
          /\ Cardinality(DOMAIN uf.val) <= MaxEntries
          /\ user_flow' = uf
    /\ pc' = "flows"
    /\ UNCHANGED << graph, source, sink, engine_vars, result, calls >>

\* graph.verify_maximum_flow(level['source'], level['sink'], user_flow_dict)
CallVerify ==
    /\ pc \in {"build", "flows"}
    /\ \E t \in ChainTerminals :
          LET out == verify_maximum_flow(graph, t[1], t[2], user_flow) IN
          /\ source' = t[1]
          /\ sink' = t[2]
          /\ result' = out.result
          /\ graph' = out.self
          /\ user_flow' = out.user_flow
    /\ calls' = 1
    /\ pc' = "verify"
    /\ UNCHANGED engine_vars

\* The same call again, on the same instance with the same arguments.
CallVerifyAgain ==
    /\ pc = "verify"
    /\ calls < MaxCalls
    /\ LET out == verify_maximum_flow(graph, source, sink, user_flow) IN
          /\ result' = out.result
          /\ graph' = out.self
          /\ user_flow' = out.user_flow
    /\ calls' = calls + 1
    /\ UNCHANGED << pc, source, sink, engine_vars >>

AddEdgeChain == AddEdge(ChainPool, MaxCap)

Init == InitFor(SmallV)
Next == AddEdgeDiamond \/ CallMaxFlowDiamond \/ LoopTest \/ LoopBody
Spec == Init /\ [][Next]_vars

InitLevel4 == InitFor(NumNodes)
NextLevel4 == AddEdgeLevel4 \/ CallMaxFlowLevel4 \/ LoopTest \/ LoopBody
SpecLevel4 == InitLevel4 /\ [][NextLevel4]_vars

InitVerify == InitFor(SmallV)
NextVerify == AddEdgeChain \/ SetUserFlow \/ CallVerify \/ CallVerifyAgain
SpecVerify == InitVerify /\ [][NextVerify]_vars

\* ------------------------------------------------- notions of the claims
RECURSIVE SumOver(_, _)
SumOver(S, f) ==
    IF S = {} THEN 0
    ELSE LET x == CHOOSE y \in S : TRUE IN f[x] + SumOver(S \ {x}, f)

\* Capacity of the arcs that leave the node set S.
CutCapacity(g, S) ==
    SumOver({ p \in Pairs : p[1] \in S /\ p[2] \notin S }, g.cap)

\* Capacity of a minimum cut separating s from t.
MinCutCapacity(g, s, t) ==
    SetMin({ CutCapacity(g, S \cup {s}) : S \in SUBSET (NodeIds \ {s, t}) })

\* Nodes reachable from the set S through pairs of positive residual capacity.
RECURSIVE ResidualReachable(_, _)
ResidualReachable(g, S) ==
    LET N == { v \in NodeIds \ S :
                 \E u \in S : g.cap[<<u, v>>] - g.flow[<<u, v>>] > 0 }
    IN IF N = {} THEN S ELSE ResidualReachable(g, S \cup N)

\* The orders in which the elements of the sequence s can be listed.
Perms(s) ==
    { t \in [1 .. Len(s) -> SeqToSet(s)] : SeqToSet(t) = SeqToSet(s) }

ZeroFlow == [p \in Pairs |-> 0]

\* ----------------------------------------------------------------- claims
\* C1: when ford_fulkerson_max_flow returns (source # sink, fresh graph), the
\* set S of nodes reachable from source through pairs of positive residual
\* capacity does not contain sink, the capacity leaving S equals the returned
\* value, and that value is the capacity of a minimum source-sink cut.
C1_MaxFlowEqualsMinCut ==
    (pc = "done" /\ source # sink) =>
        LET S == ResidualReachable(graph, {source}) IN
            /\ sink \notin S
            /\ CutCapacity(graph, S) = max_flow_value
            /\ max_flow_value = MinCutCapacity(graph, source, sink)

\* C2: the augmentation loop is left after finitely many iterations: every
\* iteration adds a strictly positive path_flow to max_flow_value and hands
\* control back to the loop test, the loop test leaves the total alone and
\* either enters the body or returns, and the total never exceeds the
\* capacity of the arcs leaving source; so the body runs at most that many
\* times.
C2_Terminates ==
    [][ /\ pc = "body" =>
             /\ path_flow' > 0
             /\ max_flow_value' = max_flow_value + path_flow'
             /\ max_flow_value' <= CutCapacity(graph, {source})
             /\ pc' = "loop"
        /\ pc = "loop" =>
             /\ pc' \in {"body", "done"}
             /\ max_flow_value' = max_flow_value ]_vars

C2_Witness ==
    /\ pc = "done"
    /\ source # sink
    /\ path_flow > 0
    /\ max_flow_value > path_flow

\* C3: the returned value does not depend on the order of the add_edge
\* calls: listing the keys of any one row in another order (what a permuted
\* call sequence with the same accumulated capacities does) gives the same
\* value for the same source and sink.
C3_OrderInvariant ==
    pc = "done" =>
        \A u \in NodeIds : \A row \in Perms(graph.keys[u]) :
            ford_fulkerson_max_flow(
                [ graph EXCEPT !.flow = ZeroFlow, !.keys[u] = row ],
                source, sink).value = max_flow_value

\* C4 as stated: after the call returns, every pair of positive capacity
\* carries a flow between 0 and its capacity, anti-parallel pairs included.
C4_FlowWithinZeroAndCapacity ==
    pc = "done" =>
        \A p \in Pairs :
            graph.cap[p] > 0 =>
                (0 <= graph.flow[p] /\ graph.flow[p] <= graph.cap[p])

\* C4 as amended: after the call returns, every pair (u,v) carries a flow
\* between -capacity[v][u] and capacity[u][v], and the two entries of a pair
\* are opposite; so the flow is at least 0 where the reverse pair has no
\* capacity, and may be negative on one arc of an anti-parallel pair.
C4_FlowWithinResidualBounds ==
    pc = "done" =>
        \A u, v \in NodeIds :
            /\ - graph.cap[<<v, u>>] <= graph.flow[<<u, v>>]
            /\ graph.flow[<<u, v>>] <= graph.cap[<<u, v>>]
            /\ graph.flow[<<v, u>>] = - graph.flow[<<u, v>>]

C4_Witness ==
    /\ pc = "done"
    /\ \E u, v \in NodeIds :
          /\ graph.cap[<<u, v>>] > 0
          /\ graph.cap[<<v, u>>] > 0
          /\ graph.flow[<<u, v>>] < 0

\* C9: with source = sink no call produces a normal result: neither
\* ford_fulkerson_max_flow returns a value nor verify_maximum_flow a triple.
C9_SourceEqualsSinkRejected ==
    source = sink => (pc # "done" /\ result = NoResult)

\* C10: in every search, a pair (u,v) with u dequeued and v not yet visited
\* is traversed if and only if capacity[u][v] - flow[u][v] > 0: every node
\* taken from a row had positive residual capacity, and after a row was
\* scanned to its end no node left unvisited has positive residual capacity
\* from u (a reverse pair of zero capacity and negative flow included).
C10_TraversedIffResidualPositive ==
    pc \in {"body", "done"} =>
        \A i \in 1 .. Len(bfs_log) :
            LET e == bfs_log[i] IN
            /\ \A v \in e.taken : residual_capacity(graph, e.u, v) > 0
            /\ e.complete =>
                  \A v \in NodeIds \ (e.before \cup e.taken) :
                      residual_capacity(graph, e.u, v) <= 0

\* The supplied entries, as the claims read them.
Entries == DOMAIN user_flow.val

\* Sum of the supplied values over the set S of supplied pairs.
EntrySum(S) == SumOver(S, user_flow.val)

\* Inflow equals outflow at every node of [0, V) other than source and sink.
Conserved ==
    \A n \in (0 .. (graph.V - 1)) \ {source, sink} :
        EntrySum({ p \in Entries : p[2] = n })
            = EntrySum({ p \in Entries : p[1] = n })

\* Sum of the positive supplied entries whose first endpoint is source.
SourceOutValue ==
    EntrySum({ p \in Entries : p[1] = source /\ user_flow.val[p] > 0 })

\* What the engine returns on a freshly built graph with these capacities.
EngineValueOnFreshGraph ==
    ford_fulkerson_max_flow([ graph EXCEPT !.flow = ZeroFlow ],
                            source, sink).value

\* C5: verify_maximum_flow returns is_valid = true if and only if inflow
\* equals outflow at every node other than source and sink and the positive
\* entries leaving source sum to the maximum the engine computes on a fresh
\* copy of the capacities.
C5_ValidIffConservedAndMaximal ==
    calls >= 1 =>
        (result[1] <=> (Conserved /\ SourceOutValue = EngineValueOnFreshGraph))

C5_Witness ==
    /\ calls >= 1
    /\ result[1]
    /\ result[2] >= 2
    /\ \E p \in Entries : p[1] # source /\ user_flow.val[p] > 0

\* C6: when the supplied flow has inflow different from outflow at a node
\* other than source and sink, the call returns is_valid = false and
\* user_flow_value = 0 whatever the entries leaving source sum to, with the
\* engine's maximum as third component.
C6_ViolationReportsZero ==
    (calls >= 1 /\ ~ Conserved) =>
        result = << FALSE, 0, EngineValueOnFreshGraph >>

C6_Witness ==
    /\ calls >= 1
    /\ ~ Conserved
    /\ SourceOutValue > 0
    /\ result[3] > 0

\* C7: the third component of the result does not depend on the supplied
\* flow: it is what ford_fulkerson_max_flow returns on a fresh graph with the
\* same capacities and an all-zero flow matrix.
C7_ReferenceIndependentOfUserFlow ==
    calls >= 1 => result[3] = EngineValueOnFreshGraph

C7_Witness ==
    /\ calls >= 1
    /\ result[3] > 0
    /\ \E p \in Entries : graph.cap[p] > 0 /\ user_flow.val[p] = graph.cap[p]

\* C8: a further call on the same instance with the same source, sink and
\* user flow returns the triple of the call before and leaves the capacities
\* and the flow matrix of the instance unchanged, also when the call before
\* added empty rows to the user flow.
C8_VerifierIdempotent ==
    [][ (calls >= 1 /\ calls' = calls + 1) =>
            (result' = result /\ graph' = graph) ]_vars

C8_Witness ==
    /\ calls >= 2
    /\ result[3] > 0
    /\ \E n \in user_flow.rows : \A p \in Entries : p[1] # n

====
